---- MODULE Spec2Model ----
(***************************************************************************)
(* Model of the ControlCAN -> CAN API V3 adapter                           *)
(* (Libraries/ControlCAN/Sources/ControlCAN.cpp).                          *)
(*                                                                         *)
(* The adapter state is the three globals g_canHandle, g_lastBitrate and   *)
(* g_canStarted.  Every exported VCI_* function is one action; the replies *)
(* of the CAN API backend (can_init, can_exit, can_start, can_reset,       *)
(* can_write, can_read) are inputs of the action, drawn from small sets.   *)
(* The remaining variables are observations of the last call: which        *)
(* function ran, with which arguments, from which adapter state, which     *)
(* backend calls it issued and what it returned.                           *)
(***************************************************************************)
EXTENDS Integers, Sequences, FiniteSets, TLC

VARIABLES
    g_canHandle,    \* backend handle, CANAPI_HANDLE when closed
    g_lastBitrate,  \* index of the last stored bitrate
    g_canStarted,   \* can_start has been called
    lastOp,         \* the exported function called last
    req,            \* arguments of the last call
    pre,            \* the adapter globals when the last call was entered
    calls,          \* backend calls issued by the last call, in order
    ret,            \* return value of the last call
    out,            \* caller's receive buffer after the last call
    openHandles,    \* backend: handles initialised and not yet exited
    bitrateStored,  \* g_lastBitrate.index was assigned since can_init succeeded
    g_rxMutex,      \* 0 when unlocked, else the thread that holds the lock
    rx,             \* per thread: where its VCI_Receive stands, and its locals
    codec,          \* a frame conversion taken alone: its input and results
    backend,        \* the controller behind the CAN API, when a run carries
                    \* one: online flag, bitrate of its last successful
                    \* start, echo queue
    tx              \* VCI_Transmit taken write by write: where it stands,
                    \* and its locals

vars == << g_canHandle, g_lastBitrate, g_canStarted, lastOp, req, pre,
           calls, ret, out, openHandles, bitrateStored, g_rxMutex, rx,
           codec, backend, tx >>

(***************************************************************************)
(* Bounds of the model.                                                    *)
(***************************************************************************)
MaxCount  == 2     \* frames per Transmit call, slots per Receive call
MaxBusy   == 1     \* CANERR_TX_BUSY replies per frame before the final reply
MaxHandle == 1     \* can_init returns a handle in 0..MaxHandle on success
NumThreads == 2    \* threads that poll VCI_Receive concurrently
MaxQueue == 2      \* frames a loopback backend holds for reading
MaxRetries == 3    \* CANERR_TX_BUSY replies to one frame that are counted

(***************************************************************************)
(* Constants of the legacy header (ControlCAN.h).                          *)
(***************************************************************************)
STATUS_OK  == 1
STATUS_ERR == 0

\* ControlCAN.h: bits of VCI_ERR_INFO.ErrCode
ERR_CAN_OVERFLOW        == 1
ERR_CAN_ERRALARM        == 2
ERR_CAN_PASSIVE         == 4
ERR_CAN_LOSE            == 8
ERR_CAN_BUSERR          == 16
ERR_CAN_BUSOFF          == 32
ERR_CAN_BUFFER_OVERFLOW == 64

\* property id of the device name
CANPROP_GET_DEVICE_NAME == 11

\* bits of the status byte of can_status: bus off, error limit reached
CANSTAT_BUSOFF == 64
CANSTAT_ERRLIM == 32

(***************************************************************************)
(* Constants of the CAN API V3 headers (CANAPI_Defines.h, can_btr.h).      *)
(***************************************************************************)
CANAPI_HANDLE    == -1
CANERR_NOERROR   == 0
CANERR_OFFLINE   == -9
CANERR_TX_BUSY   == -20
CANERR_RX_EMPTY  == -30
CANERR_FATAL     == -99
CANWAIT_INFINITE == 65535

CANBTR_INDEX_1M   == 0
CANBTR_INDEX_800K == -1
CANBTR_INDEX_500K == -2
CANBTR_INDEX_250K == -3
CANBTR_INDEX_125K == -4
CANBTR_INDEX_100K == -5
CANBTR_INDEX_50K  == -6
CANBTR_INDEX_20K  == -7
CANBTR_INDEX_10K  == -8

(***************************************************************************)
(* Frames.  A payload is a sequence of 8 bytes.                            *)
(***************************************************************************)
ZeroData == << 0, 0, 0, 0, 0, 0, 0, 0 >>

\* can_message_t msg{}
ZeroMsg == [ id |-> 0, xtd |-> 0, rtr |-> 0, sts |-> 0, dlc |-> 0,
             data |-> ZeroData ]

\* memcpy(dst, src, n) into a destination that memset cleared
CopyBytes(src, n) == [ i \in 1..8 |-> IF i <= n THEN src[i] ELSE 0 ]

\* the length wrapped into four bits before the clamp
ConvertToCANAPI_Wrapped(in) ==
    LET dlc == IF in.DataLen % 16 > 8 THEN 8 ELSE in.DataLen % 16
    IN  [ id   |-> in.ID,
          xtd  |-> IF in.ExternFlag # 0 THEN 1 ELSE 0,
          rtr  |-> IF in.RemoteFlag # 0 THEN 1 ELSE 0,
          sts  |-> 0,
          dlc  |-> dlc,
          data |-> CopyBytes(in.Data, dlc) ]

ConvertToCANAPI(in) ==
    LET dlc == IF in.DataLen > 8 THEN 8 ELSE in.DataLen
    IN  [ id   |-> in.ID,
          xtd  |-> IF in.ExternFlag # 0 THEN 1 ELSE 0,
          rtr  |-> IF in.RemoteFlag # 0 THEN 1 ELSE 0,
          sts  |-> 0,
          dlc  |-> dlc,
          data |-> CopyBytes(in.Data, dlc) ]

\* the payload not copied
ConvertFromCANAPI_NoData(in) ==
    LET len == IF in.dlc > 8 THEN 8 ELSE in.dlc
    IN  [ ID         |-> in.id,
          TimeStamp  |-> 0,
          TimeFlag   |-> 0,
          SendType   |-> 0,
          RemoteFlag |-> IF in.rtr # 0 THEN 1 ELSE 0,
          ExternFlag |-> IF in.xtd # 0 THEN 1 ELSE 0,
          DataLen    |-> len,
          Data       |-> ZeroData,
          Reserved   |-> << 0, 0, 0 >> ]

\* the auxiliary fields left as the caller's slot had them
ConvertFromCANAPI_KeepsAux(in) ==
    LET len == IF in.dlc > 8 THEN 8 ELSE in.dlc
    IN  [ ID         |-> in.id,
          TimeStamp  |-> 7,
          TimeFlag   |-> 1,
          SendType   |-> 1,
          RemoteFlag |-> IF in.rtr # 0 THEN 1 ELSE 0,
          ExternFlag |-> IF in.xtd # 0 THEN 1 ELSE 0,
          DataLen    |-> len,
          Data       |-> CopyBytes(in.data, len),
          Reserved   |-> << 1, 1, 1 >> ]

ConvertFromCANAPI(in) ==
    LET len == IF in.dlc > 8 THEN 8 ELSE in.dlc
    IN  [ ID         |-> in.id,
          TimeStamp  |-> 0,
          TimeFlag   |-> 0,
          SendType   |-> 0,
          RemoteFlag |-> IF in.rtr # 0 THEN 1 ELSE 0,
          ExternFlag |-> IF in.xtd # 0 THEN 1 ELSE 0,
          DataLen    |-> len,
          Data       |-> CopyBytes(in.data, len),
          Reserved   |-> << 0, 0, 0 >> ]

\* the third argument of the memcpy of each direction
CopiedToCANAPI(in)   == ConvertToCANAPI(in).dlc
CopiedFromCANAPI(in) == ConvertFromCANAPI(in).DataLen

(***************************************************************************)
(* The converters of logging.cpp.  The message has a len field, and both   *)
(* the stored length and the memcpy count are the input length as it is.   *)
(* A copy of more than 8 bytes runs past Data[8] / data[8]: InBounds is    *)
(* the part that lands in the payload, the rest is the overrun.            *)
(***************************************************************************)
InBounds(n) == IF n > 8 THEN 8 ELSE n

Logging_ConvertToCANAPI(in) ==
    [ id   |-> in.ID,
      xtd  |-> IF in.ExternFlag # 0 THEN 1 ELSE 0,
      rtr  |-> IF in.RemoteFlag # 0 THEN 1 ELSE 0,
      len  |-> in.DataLen,
      data |-> CopyBytes(in.Data, InBounds(in.DataLen)) ]

\* spill: the bytes that follow in.data in memory, which a copy of more than
\* 8 bytes carries on into out.Reserved
Logging_ConvertFromCANAPI(in, spill) ==
    [ ID         |-> in.id,
      TimeStamp  |-> 0,
      TimeFlag   |-> 0,
      SendType   |-> 0,
      RemoteFlag |-> IF in.rtr # 0 THEN 1 ELSE 0,
      ExternFlag |-> IF in.xtd # 0 THEN 1 ELSE 0,
      DataLen    |-> in.len,
      Data       |-> CopyBytes(in.data, InBounds(in.len)),
      Reserved   |-> [ i \in 1..3 |-> IF 8 + i <= in.len THEN spill ELSE 0 ] ]

Logging_CopiedToCANAPI(in)   == in.DataLen
Logging_CopiedFromCANAPI(in) == in.len

\* what a caller's receive slot holds before the call
StaleFrame ==
    [ ID |-> 2047, TimeStamp |-> 7, TimeFlag |-> 1, SendType |-> 1,
      RemoteFlag |-> 1, ExternFlag |-> 1, DataLen |-> 8,
      Data |-> << 9, 9, 9, 9, 9, 9, 9, 9 >>, Reserved |-> << 1, 1, 1 >> ]

\* the frames of the array a caller hands to VCI_Transmit: frames[k-1]
TxFrame(k) ==
    IF k % 2 = 1
    THEN
      [ ID |-> 291, TimeStamp |-> 0, TimeFlag |-> 0, SendType |-> 0,
        RemoteFlag |-> 0, ExternFlag |-> 0, DataLen |-> 3,
        Data |-> << 1, 2, 3, 0, 0, 0, 0, 0 >>, Reserved |-> << 0, 0, 0 >> ]
    ELSE
      [ ID |-> 1753310, TimeStamp |-> 5, TimeFlag |-> 1, SendType |-> 2,
        RemoteFlag |-> 0, ExternFlag |-> 2, DataLen |-> 9,
        Data |-> << 1, 2, 3, 4, 5, 6, 7, 8 >>, Reserved |-> << 0, 0, 0 >> ]

\* the k-th frame other nodes put on the bus
BusMsg(k) ==
    IF k % 2 = 1
    THEN [ id |-> 291, xtd |-> 0, rtr |-> 0, sts |-> 0, dlc |-> 3,
           data |-> << 1, 2, 3, 0, 0, 0, 0, 0 >> ]
    ELSE [ id |-> 1753310, xtd |-> 1, rtr |-> 1, sts |-> 0, dlc |-> 15,
           data |-> << 8, 7, 6, 5, 4, 3, 2, 1 >> ]

\* the k-th message waiting in the backend's receive queue: the frames the
\* backend echoes when it loops transmissions back, else frames from the bus
RxMsg(k) ==
    IF backend.model = "loopback" THEN backend.queue[k] ELSE BusMsg(k)

(***************************************************************************)
(* Replies of the backend.                                                 *)
(***************************************************************************)
InitReplies   == { CANERR_FATAL } \cup (0..MaxHandle)
StatusReplies == { CANERR_NOERROR, CANERR_OFFLINE, CANERR_FATAL }
WriteFinals   == { CANERR_NOERROR, CANERR_FATAL }
WriteReplies  == [ busy : 0..MaxBusy, final : WriteFinals ]
ReadTerminals == { CANERR_RX_EMPTY, CANERR_FATAL }

\* what the i-th can_read of a call returns when avail messages wait in the
\* queue and the read after the last of them returns terminal
ReadReply(i, avail, terminal) ==
    IF i <= avail THEN [ r |-> CANERR_NOERROR, msg |-> RxMsg(i) ]
    ELSE [ r |-> terminal, msg |-> ZeroMsg ]

\* sequences of exactly n elements of S
SeqN(S, n) == [ 1..n -> S ]

\* the backend's answers to the count frames of one VCI_Transmit: the frames
\* after a rejected one are never written and have no answer of their own
WriteScripts(count) ==
    { s \in SeqN(WriteReplies, count) :
        \A i \in 1..count :
            s[i].final < CANERR_NOERROR
                => \A j \in (i + 1)..count :
                       s[j] = [ busy |-> 0, final |-> CANERR_NOERROR ] }

\* one backend call and its result
Call(fn, h, bitrate, msg, timeout, r) ==
    [ fn |-> fn, handle |-> h, bitrate |-> bitrate, msg |-> msg,
      timeout |-> timeout, r |-> r, status |-> 0, param |-> 0, nbyte |-> 0 ]

\* can_property(h, param, value, nbyte)
PropertyCall(h, param, nbyte, r) ==
    [ Call("can_property", h, 0, ZeroMsg, 0, r) EXCEPT !.param = param,
                                                         !.nbyte = nbyte ]

\* no index: the controller was never started
NoBitrate == CANBTR_INDEX_1M + 1

\* the controller before can_init.  model says what a run carries of it:
\* "none" (the replies are arbitrary and nothing is remembered),
\* "controller" (online flag and bitrate), "loopback" (also echoes writes)
Backend0(model) ==
    [ model |-> model, online |-> FALSE, bitrate |-> NoBitrate,
      queue |-> << >> ]

\* the effect of one call on the controller: online after a successful
\* can_start, offline after can_init, can_exit and a can_reset that
\* succeeded or answered CANERR_OFFLINE; a loopback controller queues what
\* can_write accepted and hands it out to can_read
BackendStep(b, c) ==
    IF b.model = "none" THEN b
    ELSE IF c.fn = "can_start" /\ c.r >= 0
    THEN [ b EXCEPT !.online = TRUE, !.bitrate = c.bitrate ]
    ELSE IF c.fn = "can_reset" /\ (c.r >= 0 \/ c.r = CANERR_OFFLINE)
    THEN [ b EXCEPT !.online = FALSE ]
    ELSE IF c.fn \in { "can_init", "can_exit" } /\ c.r >= 0
    THEN [ b EXCEPT !.online = FALSE, !.queue = << >> ]
    ELSE IF c.fn = "can_write" /\ c.r = CANERR_NOERROR
                 /\ b.model = "loopback"
    THEN [ b EXCEPT !.queue = Append(@, c.msg) ]
    ELSE IF c.fn = "can_read" /\ c.r = CANERR_NOERROR
                 /\ b.model = "loopback"
    THEN [ b EXCEPT !.queue = Tail(@) ]
    ELSE b

RECURSIVE BackendAfter(_, _)
BackendAfter(b, cs) ==
    IF cs = << >> THEN b
    ELSE BackendAfter(BackendStep(b, Head(cs)), Tail(cs))

\* can_status(h, &status): r is what it returns, status the byte it stores
StatusCall(h, r, status) ==
    [ Call("can_status", h, 0, ZeroMsg, 0, r) EXCEPT !.status = status ]

(***************************************************************************)
(* Arguments of the exported functions.                                    *)
(***************************************************************************)
NoReq == [ cfgNull |-> FALSE, Timing0 |-> 0, Timing1 |-> 0,
           bufNull |-> FALSE, count |-> 0, waitTime |-> 0 ]

\* (Timing0, Timing1) pairs a caller passes to VCI_InitCAN
TimingPairs == { << 0, 20 >>, << 0, 28 >>, << 1, 28 >>, << 0, 29 >>,
                 << 255, 255 >> }

WaitTimes == { -1, 0, 100 }

Threads == 1..NumThreads

\* outside VCI_Transmit: ret is what the last call returned, r the last
\* value can_write returned in it
TxIdle == [ pc |-> "idle", count |-> 0, i |-> 0, sent |-> 0, busy |-> 0,
            r |-> 0, ret |-> 0 ]

\* the largest BYTE
ByteMax == 255

\* no conversion under way
CodecIdle ==
    [ variant |-> "none", origin |-> "none", stage |-> "idle",
      frame |-> StaleFrame, msg |-> ZeroMsg, back |-> StaleFrame,
      copiedTo |-> 0, copiedFrom |-> 0 ]

\* a thread outside VCI_Receive: ret is what its last call returned
RxIdle == [ pc |-> "idle", maxCount |-> 0, waitTime |-> 0, i |-> 0,
            received |-> 0, handle |-> CANAPI_HANDLE, ret |-> 0 ]

Snapshot == [ handle  |-> g_canHandle,
              bitrate |-> g_lastBitrate,
              started |-> g_canStarted ]

\* the observation every exported function leaves behind when it runs from
\* entry to return in one step; g_rxMutex, if taken, is released by then
Enter(op, rq) ==
    /\ lastOp' = op
    /\ req'    = rq
    /\ pre'    = Snapshot
    /\ UNCHANGED << g_rxMutex, rx, codec, tx >>

(***************************************************************************)
(* Bit-timing translation (can_btr.c).  btr_sja10002bitrate looks the      *)
(* composite BTR0BTR1 value up in the table of SJA1000 register patterns   *)
(* of the standard rates and yields the nominal speed in kbit/s;           *)
(* btr_bitrate2index reduces that speed to the bitrate index.              *)
(***************************************************************************)
SJA1000Table ==
    { << 20, 1000 >>, << 22, 800 >>, << 28, 500 >>, << 284, 250 >>,
      << 796, 125 >>, << 17199, 100 >>, << 18223, 50 >>, << 21295, 20 >>,
      << 26415, 10 >> }

SpeedIndex ==
    { << 1000, CANBTR_INDEX_1M >>,  << 800, CANBTR_INDEX_800K >>,
      << 500, CANBTR_INDEX_500K >>, << 250, CANBTR_INDEX_250K >>,
      << 125, CANBTR_INDEX_125K >>, << 100, CANBTR_INDEX_100K >>,
      << 50, CANBTR_INDEX_50K >>,   << 20, CANBTR_INDEX_20K >>,
      << 10, CANBTR_INDEX_10K >> }

\* the value a table of pairs gives for key k (the table has k)
Lookup(table, k) == (CHOOSE e \in table : e[1] = k)[2]

btr_sja10002bitrate(btr0btr1) ==
    IF \E e \in SJA1000Table : e[1] = btr0btr1
    THEN [ r |-> 0, br |-> Lookup(SJA1000Table, btr0btr1) ]
    ELSE [ r |-> -1, br |-> 0 ]

btr_bitrate2index(br) ==
    IF \E e \in SpeedIndex : e[1] = br
    THEN [ r |-> 0, index |-> Lookup(SpeedIndex, br) ]
    ELSE [ r |-> -1, index |-> 0 ]

(***************************************************************************)
(* Conditions and assignments of the exported functions.                   *)
(***************************************************************************)
\* handle 0 taken for "no handle"
HandleHeld_Positive(h) == h > 0

\* the closed sentinel taken for a handle
HandleHeld_Always(h) == TRUE

\* g_canHandle >= 0: a handle is held
HandleHeld(h) == h >= 0

\* handle 0 taken for a failure of can_init
InitFailed_NonPositive(h) == h <= 0

\* VCI_OpenDevice: can_init failed
InitFailed(h) == h < 0

\* VCI_OpenDevice: the bitrate stored with a fresh handle
DefaultBitrate == CANBTR_INDEX_250K

\* the handle kept when can_exit reports an error
HandleAfterClose_OnSuccess(h, r) == IF r < 0 THEN h ELSE CANAPI_HANDLE

\* the started flag not cleared on close
StartedAfterClose_Kept(s, r) == s

\* the handle never forgotten by close
HandleAfterClose_Kept(h, r) == h

\* VCI_CloseDevice: the globals it leaves, whatever can_exit returned
HandleAfterClose(h, r)  == CANAPI_HANDLE
StartedAfterClose(s, r) == FALSE

\* the two registers taken in the other order
ComposeBTR_Swapped(t0, t1) == (t1 * 256 + t0) % 65536

\* VCI_InitCAN: const uint16_t btr0btr1 = Timing0 << 8 | Timing1
ComposeBTR(t0, t1) == (t0 * 256 + t1) % 65536

\* g_lastBitrate = {} executed before the translation is known to succeed
InitCANOutcome_ClearsFirst(cfgNull, t0, t1, cur) ==
    IF cfgNull THEN [ ret |-> STATUS_ERR, bitrate |-> cur ]
    ELSE LET b == btr_sja10002bitrate(ComposeBTR(t0, t1))
         IN  IF b.r < 0 THEN [ ret |-> STATUS_ERR, bitrate |-> 0 ]
             ELSE LET x == btr_bitrate2index(b.br)
                  IN  IF x.r < 0 THEN [ ret |-> STATUS_ERR, bitrate |-> 0 ]
                      ELSE [ ret |-> STATUS_OK, bitrate |-> x.index ]

\* VCI_InitCAN: status and stored bitrate index it leaves
InitCANOutcome(cfgNull, t0, t1, cur) ==
    IF cfgNull THEN [ ret |-> STATUS_ERR, bitrate |-> cur ]
    ELSE LET b == btr_sja10002bitrate(ComposeBTR(t0, t1))
         IN  IF b.r < 0 THEN [ ret |-> STATUS_ERR, bitrate |-> cur ]
             ELSE LET x == btr_bitrate2index(b.br)
                  IN  IF x.r < 0 THEN [ ret |-> STATUS_ERR, bitrate |-> cur ]
                      ELSE [ ret |-> STATUS_OK, bitrate |-> x.index ]

\* the new bitrate applied to the controller at once
InitCANCalls_Restarts(h, bitrate) ==
    << Call("can_start", h, bitrate, ZeroMsg, 0, CANERR_NOERROR) >>

\* VCI_InitCAN: the backend calls it issues with the translated bitrate
InitCANCalls(h, bitrate) == << >>

\* g_canStarted set before the result of can_start is looked at
StartedAfterStart_Always(s, r) == TRUE

\* VCI_StartCAN: the started flag after can_start returned r
StartedAfterStart(s, r) == IF r < 0 THEN s ELSE TRUE

\* CANERR_OFFLINE not excepted
ResetFailed_AnyNegative(r) == r < 0

\* VCI_ResetCAN, VCI_ClearBuffer: can_reset failed fatally
ResetFailed(r) == r < 0 /\ r # CANERR_OFFLINE

\* VCI_ResetCAN: the started flag after can_reset returned r
StartedAfterReset(s, r) == IF ResetFailed(r) THEN s ELSE FALSE

\* the restart not made conditional on g_canStarted
RestartWanted_Always(s) == TRUE

\* VCI_ClearBuffer: can_start is issued after can_reset
RestartWanted(s) == s

\* the result of the restart ignored
ClearBufferFailed_ResetOnly(r1, r2) == ResetFailed(r1)

\* VCI_ClearBuffer: (r1 < 0 && r1 != CANERR_OFFLINE) || r2 < 0
ClearBufferFailed_RestartOnly(r1, r2) == r2 < 0

ClearBufferFailed(r1, r2) == ResetFailed(r1) \/ r2 < 0

\* a busy reply taken for the final answer: no second can_write
WriteAttempts_NoRetry(reply) ==
    IF reply.busy > 0 THEN [ n |-> 1, r |-> CANERR_TX_BUSY ]
    ELSE [ n |-> 1, r |-> reply.final ]

\* VCI_Transmit: do { r = can_write(...) } while (r == CANERR_TX_BUSY), for a
\* backend that answers busy reply.busy times and then reply.final: the
\* number of can_write calls and the r the loop ends with
WriteAttempts(reply) == [ n |-> reply.busy + 1, r |-> reply.final ]

\* the comparison turned round
WriteRejected_Positive(r) == r > CANERR_NOERROR

\* VCI_Transmit: if (r < CANERR_NOERROR) break
WriteRejected(r) == r < CANERR_NOERROR

\* a hard read error not ending the batch
ReadStops_OnEmptyOnly(r) == r = CANERR_RX_EMPTY

\* VCI_Receive: the two breaks of the loop
ReadStops(r) == r = CANERR_RX_EMPTY \/ r < CANERR_NOERROR

\* the lock taken without waiting for its holder
MutexFree_Always(m) == TRUE

\* std::lock_guard lock(g_rxMutex) returns only when no thread holds the lock
MutexFree(m) == m = 0

\* v & mask # 0, for a mask of one bit
BitSet(v, mask) == (v \div mask) % 2 = 1

\* the two legacy bits exchanged
ErrCodeOf_Swapped(status) ==
    (IF BitSet(status, CANSTAT_BUSOFF) THEN ERR_CAN_PASSIVE ELSE 0)
    + (IF BitSet(status, CANSTAT_ERRLIM) THEN ERR_CAN_BUSOFF ELSE 0)

\* VCI_ReadErrInfo: out->ErrCode, or-ed together from 0, in a build whose
\* backend header defines CANSTAT_BUSOFF and CANSTAT_ERRLIM
ErrCodeOf(status) ==
    (IF BitSet(status, CANSTAT_BUSOFF) THEN ERR_CAN_BUSOFF ELSE 0)
    + (IF BitSet(status, CANSTAT_ERRLIM) THEN ERR_CAN_PASSIVE ELSE 0)

\* memset(out, 0, sizeof(VCI_ERR_INFO))
ZeroErrInfo ==
    [ ErrCode |-> 0, Passive_ErrData |-> << 0, 0, 0 >>, ArLost_ErrData |-> 0 ]

\* what the caller's VCI_ERR_INFO holds before the call
StaleErrInfo ==
    [ ErrCode |-> 127, Passive_ErrData |-> << 9, 9, 9 >>,
      ArLost_ErrData |-> 9 ]

\* a busy reply taken for a rejection
RetryWrite_Never(r) == FALSE

\* VCI_Transmit: do { r = can_write(...) } while (r == CANERR_TX_BUSY)
RetryWrite(r) == r = CANERR_TX_BUSY

\* VCI_Transmit, VCI_Receive: the early return before any backend call
TransmitRefused(h, framesNull, count) == h < 0 \/ framesNull \/ count = 0
ReceiveRefused(h, outNull, maxCount)  == h < 0 \/ outNull \/ maxCount = 0

\* VCI_Receive: the uint16_t timeout passed to can_read
ReceiveTimeout(waitTime) ==
    IF waitTime < 0 THEN CANWAIT_INFINITE
    ELSE IF waitTime = 0 THEN 0
    ELSE waitTime % 65536

Init ==
    /\ g_canHandle   = CANAPI_HANDLE
    /\ g_lastBitrate = 0
    /\ g_canStarted  = FALSE
    /\ lastOp = "none"
    /\ req    = NoReq
    /\ pre    = [ handle |-> CANAPI_HANDLE, bitrate |-> 0, started |-> FALSE ]
    /\ calls  = << >>
    /\ ret    = 0
    /\ out    = << >>
    /\ openHandles   = 0
    /\ bitrateStored = FALSE
    /\ g_rxMutex     = 0
    /\ rx            = [ t \in Threads |-> RxIdle ]
    /\ codec         = CodecIdle
    /\ backend       = Backend0("none")
    /\ tx            = TxIdle

(***************************************************************************)
(* The exported functions.                                                 *)
(***************************************************************************)
NoMsg == ZeroMsg

\* h: the value can_init returns when it is called
VCI_OpenDevice(h) ==
    /\ Enter("Open", NoReq)
    /\ IF HandleHeld(g_canHandle)
       THEN /\ calls' = << >>
            /\ ret'   = STATUS_OK
            /\ UNCHANGED << g_canHandle, g_lastBitrate, openHandles,
                            bitrateStored >>
       ELSE /\ calls' = << Call("can_init", g_canHandle, 0, NoMsg, 0, h) >>
            /\ openHandles' = openHandles + (IF h >= 0 THEN 1 ELSE 0)
            /\ IF InitFailed(h)
               THEN /\ ret' = STATUS_ERR
                    /\ UNCHANGED << g_canHandle, g_lastBitrate,
                                    bitrateStored >>
               ELSE /\ ret' = STATUS_OK
                    /\ g_canHandle'   = h
                    /\ g_lastBitrate' = DefaultBitrate
                    /\ bitrateStored' = TRUE
    /\ UNCHANGED << g_canStarted, out >>
    /\ backend' = BackendAfter(backend, calls')

\* r: the value can_exit returns when it is called
VCI_CloseDevice(r) ==
    /\ Enter("Close", NoReq)
    /\ IF HandleHeld(g_canHandle)
       THEN /\ calls' = << Call("can_exit", g_canHandle, 0, NoMsg, 0, r) >>
            /\ openHandles' = openHandles - 1
       ELSE /\ calls' = << >>
            /\ UNCHANGED openHandles
    /\ g_canHandle'   = HandleAfterClose(g_canHandle, r)
    /\ g_canStarted'  = StartedAfterClose(g_canStarted, r)
    /\ bitrateStored' = IF HandleHeld(g_canHandle') THEN bitrateStored ELSE FALSE
    /\ ret' = STATUS_OK
    /\ UNCHANGED << g_lastBitrate, out >>
    /\ backend' = BackendAfter(backend, calls')

\* cfgNull: cfg == NULL; t0, t1: cfg->Timing0, cfg->Timing1
VCI_InitCAN(cfgNull, t0, t1) ==
    LET o == InitCANOutcome(cfgNull, t0, t1, g_lastBitrate)
    IN  /\ Enter("Configure", [ NoReq EXCEPT !.cfgNull = cfgNull,
                                             !.Timing0 = t0, !.Timing1 = t1 ])
        /\ calls' = InitCANCalls(g_canHandle, o.bitrate)
        /\ ret'   = o.ret
        /\ g_lastBitrate' = o.bitrate
        /\ bitrateStored' = IF o.ret = STATUS_OK /\ HandleHeld(g_canHandle)
                            THEN TRUE ELSE bitrateStored
        /\ UNCHANGED << g_canHandle, g_canStarted, out, openHandles >>
        /\ backend' = BackendAfter(backend, calls')

\* r: the value can_start returns when it is called
VCI_StartCAN(r) ==
    /\ Enter("Start", NoReq)
    /\ IF ~HandleHeld(g_canHandle)
       THEN /\ calls' = << >>
            /\ ret'   = STATUS_ERR
            /\ UNCHANGED g_canStarted
       ELSE /\ calls' = << Call("can_start", g_canHandle, g_lastBitrate,
                                NoMsg, 0, r) >>
            /\ ret'   = IF r < 0 THEN STATUS_ERR ELSE STATUS_OK
            /\ g_canStarted' = StartedAfterStart(g_canStarted, r)
    /\ UNCHANGED << g_canHandle, g_lastBitrate, out, openHandles,
                    bitrateStored >>
    /\ backend' = BackendAfter(backend, calls')

\* r: the value can_reset returns when it is called
VCI_ResetCAN(r) ==
    /\ Enter("Stop", NoReq)
    /\ IF ~HandleHeld(g_canHandle)
       THEN /\ calls' = << >>
            /\ ret'   = STATUS_ERR
            /\ UNCHANGED g_canStarted
       ELSE /\ calls' = << Call("can_reset", g_canHandle, 0, NoMsg, 0, r) >>
            /\ ret'   = IF ResetFailed(r) THEN STATUS_ERR ELSE STATUS_OK
            /\ g_canStarted' = StartedAfterReset(g_canStarted, r)
    /\ UNCHANGED << g_canHandle, g_lastBitrate, out, openHandles,
                    bitrateStored >>
    /\ backend' = BackendAfter(backend, calls')

\* r1, r2: the values can_reset and can_start return when they are called
VCI_ClearBuffer(r1, r2) ==
    /\ Enter("ClearBuffer", NoReq)
    /\ IF ~HandleHeld(g_canHandle)
       THEN /\ calls' = << >>
            /\ ret'   = STATUS_ERR
       ELSE LET reset   == Call("can_reset", g_canHandle, 0, NoMsg, 0, r1)
                restart == RestartWanted(g_canStarted)
                start   == Call("can_start", g_canHandle, g_lastBitrate,
                                NoMsg, 0, r2)
                rr2     == IF restart THEN r2 ELSE 0
            IN  /\ calls' = IF restart THEN << reset, start >> ELSE << reset >>
                /\ ret'   = IF ClearBufferFailed(r1, rr2)
                            THEN STATUS_ERR ELSE STATUS_OK
    /\ UNCHANGED << g_canHandle, g_lastBitrate, g_canStarted, out,
                    openHandles, bitrateStored >>
    /\ backend' = BackendAfter(backend, calls')

\* the for loop of VCI_Transmit from frame i on: replies[i] is the backend's
\* answer to frame i, .busy times CANERR_TX_BUSY and then .final
RECURSIVE TransmitLoop(_, _, _, _, _, _)
TransmitLoop(i, sent, log, h, count, replies) ==
    IF i > count THEN [ sent |-> sent, log |-> log ]
    ELSE LET msg    == ConvertToCANAPI(TxFrame(i))
             n      == WriteAttempts(replies[i]).n
             r      == WriteAttempts(replies[i]).r
             writes == [ k \in 1..n |->
                           Call("can_write", h, 0, msg, 0,
                                IF k < n THEN CANERR_TX_BUSY ELSE r) ]
         IN  IF WriteRejected(r)
             THEN [ sent |-> sent, log |-> log \o writes ]
             ELSE TransmitLoop(i + 1, sent + 1, log \o writes, h, count,
                               replies)

\* framesNull: frames == NULL; otherwise frames[0..count-1] are TxFrame(1..count)
VCI_Transmit(framesNull, count, replies) ==
    /\ Enter("Transmit", [ NoReq EXCEPT !.bufNull = framesNull,
                                        !.count = count ])
    /\ IF TransmitRefused(g_canHandle, framesNull, count)
       THEN /\ calls' = << >>
            /\ ret'   = 0
       ELSE LET t == TransmitLoop(1, 0, << >>, g_canHandle, count, replies)
            IN  /\ calls' = t.log
                /\ ret'   = t.sent
    /\ UNCHANGED << g_canHandle, g_lastBitrate, g_canStarted, out,
                    openHandles, bitrateStored >>
    /\ backend' = BackendAfter(backend, calls')

\* the for loop of VCI_Receive from iteration i on
RECURSIVE ReceiveLoop(_, _, _, _, _, _, _, _, _)
ReceiveLoop(i, received, log, buf, h, maxCount, timeout, avail, terminal) ==
    IF i > maxCount THEN [ received |-> received, log |-> log, buf |-> buf ]
    ELSE LET rep  == ReadReply(i, avail, terminal)
             read == Call("can_read", h, 0, NoMsg, timeout, rep.r)
         IN  IF ReadStops(rep.r)
             THEN [ received |-> received, log |-> Append(log, read),
                    buf |-> buf ]
             ELSE ReceiveLoop(i + 1, received + 1, Append(log, read),
                              [ buf EXCEPT ![received + 1] =
                                               ConvertFromCANAPI(rep.msg) ],
                              h, maxCount, timeout, avail, terminal)

\* outNull: out == NULL; maxCount slots, each holding StaleFrame
VCI_Receive(outNull, maxCount, waitTime, avail, terminal) ==
    /\ Enter("Receive", [ NoReq EXCEPT !.bufNull = outNull,
                                       !.count = maxCount,
                                       !.waitTime = waitTime ])
    /\ IF ReceiveRefused(g_canHandle, outNull, maxCount)
       THEN /\ calls' = << >>
            /\ ret'   = 0
            /\ out'   = IF outNull THEN << >>
                        ELSE [ k \in 1..maxCount |-> StaleFrame ]
       ELSE LET t == ReceiveLoop(1, 0, << >>,
                                 [ k \in 1..maxCount |-> StaleFrame ],
                                 g_canHandle, maxCount,
                                 ReceiveTimeout(waitTime), avail, terminal)
            IN  /\ calls' = t.log
                /\ ret'   = t.received
                /\ out'   = t.buf
    /\ UNCHANGED << g_canHandle, g_lastBitrate, g_canStarted, openHandles,
                    bitrateStored >>
    /\ backend' = BackendAfter(backend, calls')

\* outNull: out == NULL; r, status: what can_status returns and stores
VCI_ReadErrInfo(outNull, r, status) ==
    /\ Enter("ReadErrInfo", [ NoReq EXCEPT !.bufNull = outNull ])
    /\ IF ~HandleHeld(g_canHandle) \/ outNull
       THEN /\ calls' = << >>
            /\ ret'   = STATUS_ERR
            /\ out'   = IF outNull THEN << >> ELSE << StaleErrInfo >>
       ELSE /\ calls' = << StatusCall(g_canHandle, r, status) >>
            /\ IF r < 0
               THEN /\ ret' = STATUS_ERR
                    /\ out' = << ZeroErrInfo >>
               ELSE /\ ret' = STATUS_OK
                    /\ out' = << [ ZeroErrInfo EXCEPT
                                     !.ErrCode = ErrCodeOf(status) ] >>
    /\ UNCHANGED << g_canHandle, g_lastBitrate, g_canStarted, openHandles,
                    bitrateStored >>
    /\ backend' = BackendAfter(backend, calls')

\* RefType values a caller passes: one that fits 16 bits, one that does not
RefTypes == { 1, 65541 }

\* dataNull: data == NULL; r: what can_property returns
VCI_SetReference(dataNull, RefType, r) ==
    /\ Enter("SetReference", [ NoReq EXCEPT !.bufNull = dataNull,
                                            !.count = RefType ])
    /\ IF ~HandleHeld(g_canHandle) \/ dataNull
       THEN /\ calls' = << >>
            /\ ret'   = STATUS_ERR
       ELSE /\ calls' = << PropertyCall(g_canHandle, RefType % 65536, 4, r) >>
            /\ ret'   = IF r < 0 THEN STATUS_ERR ELSE STATUS_OK
    /\ out' = << >>
    /\ UNCHANGED << g_canHandle, g_lastBitrate, g_canStarted, openHandles,
                    bitrateStored >>
    /\ backend' = BackendAfter(backend, calls')

VCI_GetReference(dataNull, RefType, r) ==
    /\ Enter("GetReference", [ NoReq EXCEPT !.bufNull = dataNull,
                                            !.count = RefType ])
    /\ IF ~HandleHeld(g_canHandle) \/ dataNull
       THEN /\ calls' = << >>
            /\ ret'   = STATUS_ERR
       ELSE /\ calls' = << PropertyCall(g_canHandle, RefType % 65536, 4, r) >>
            /\ ret'   = IF r < 0 THEN STATUS_ERR ELSE STATUS_OK
    /\ out' = << >>
    /\ UNCHANGED << g_canHandle, g_lastBitrate, g_canStarted, openHandles,
                    bitrateStored >>
    /\ backend' = BackendAfter(backend, calls')

\* infoNull: info == NULL; r: what can_property returns for the device name
VCI_ReadBoardInfo(infoNull, r) ==
    /\ Enter("ReadBoardInfo", [ NoReq EXCEPT !.bufNull = infoNull ])
    /\ IF ~HandleHeld(g_canHandle) \/ infoNull
       THEN /\ calls' = << >>
            /\ ret'   = STATUS_ERR
            /\ out'   = << >>
       ELSE /\ calls' = << PropertyCall(g_canHandle, CANPROP_GET_DEVICE_NAME,
                                        40, r) >>
            /\ ret'   = STATUS_OK
            /\ out'   = << [ can_Num        |-> 1,
                             str_Serial_Num |-> "N/A",
                             str_hw_Type    |-> IF r >= 0 THEN "device name"
                                                ELSE "SerialCAN" ] >>
    /\ UNCHANGED << g_canHandle, g_lastBitrate, g_canStarted, openHandles,
                    bitrateStored >>
    /\ backend' = BackendAfter(backend, calls')

\* statusNull: status == NULL; r, st: what can_status returns and stores
VCI_ReadCANStatus(statusNull, r, st) ==
    /\ Enter("ReadCANStatus", [ NoReq EXCEPT !.bufNull = statusNull ])
    /\ IF ~HandleHeld(g_canHandle) \/ statusNull
       THEN /\ calls' = << >>
            /\ ret'   = STATUS_ERR
            /\ out'   = << >>
       ELSE /\ calls' = << StatusCall(g_canHandle, r, st) >>
            /\ IF r < 0
               THEN /\ ret' = STATUS_ERR
                    /\ out' = << [ regStatus |-> 0 ] >>
               ELSE /\ ret' = STATUS_OK
                    /\ out' = << [ regStatus |-> st ] >>
    /\ UNCHANGED << g_canHandle, g_lastBitrate, g_canStarted, openHandles,
                    bitrateStored >>
    /\ backend' = BackendAfter(backend, calls')

VCI_GetReceiveNum ==
    /\ Enter("GetReceiveNum", NoReq)
    /\ calls' = << >>
    /\ ret'   = 0
    /\ out'   = << >>
    /\ UNCHANGED << g_canHandle, g_lastBitrate, g_canStarted, openHandles,
                    bitrateStored >>
    /\ backend' = BackendAfter(backend, calls')

\* status bytes a caller sees: none, bus off, error limit, all bits
StatusBytes == { 0, CANSTAT_BUSOFF, CANSTAT_ERRLIM, ByteMax }

\* the operations that read properties and status
InfoNext ==
    \/ \E n \in BOOLEAN, t \in RefTypes, r \in StatusReplies :
           VCI_SetReference(n, t, r)
    \/ \E n \in BOOLEAN, t \in RefTypes, r \in StatusReplies :
           VCI_GetReference(n, t, r)
    \/ \E n \in BOOLEAN, r \in StatusReplies : VCI_ReadBoardInfo(n, r)
    \/ \E n \in BOOLEAN, r \in StatusReplies, st \in StatusBytes :
           VCI_ReadCANStatus(n, r, st)
    \/ \E n \in BOOLEAN, r \in StatusReplies, st \in StatusBytes :
           VCI_ReadErrInfo(n, r, st)
    \/ VCI_GetReceiveNum

Next ==
    \/ \E h \in InitReplies : VCI_OpenDevice(h)
    \/ \E r \in StatusReplies : VCI_CloseDevice(r)
    \/ VCI_InitCAN(TRUE, 0, 0)
    \/ \E p \in TimingPairs : VCI_InitCAN(FALSE, p[1], p[2])
    \/ \E r \in StatusReplies : VCI_StartCAN(r)
    \/ \E r \in StatusReplies : VCI_ResetCAN(r)
    \/ \E r1 \in StatusReplies, r2 \in StatusReplies : VCI_ClearBuffer(r1, r2)
    \/ \E n \in 0..MaxCount : VCI_Transmit(TRUE, n, << >>)
    \/ \E n \in 0..MaxCount :
           \E replies \in WriteScripts(n) :
               VCI_Transmit(FALSE, n, replies)
    \/ \E n \in 0..MaxCount, w \in WaitTimes :
           VCI_Receive(TRUE, n, w, 0, CANERR_RX_EMPTY)
    \/ \E n \in 0..MaxCount, w \in WaitTimes :
           \E avail \in 0..n, terminal \in ReadTerminals :
               VCI_Receive(FALSE, n, w, avail, terminal)

Spec == Init /\ [][Next]_vars

\* every exported function, the data-plane calls with at most one frame
OpsNext ==
    \/ \E h \in InitReplies : VCI_OpenDevice(h)
    \/ \E r \in StatusReplies : VCI_CloseDevice(r)
    \/ VCI_InitCAN(FALSE, 0, 28)
    \/ \E r \in StatusReplies : VCI_StartCAN(r)
    \/ \E r \in StatusReplies : VCI_ResetCAN(r)
    \/ \E r1 \in StatusReplies, r2 \in StatusReplies : VCI_ClearBuffer(r1, r2)
    \/ \E n \in 0..1 : \E replies \in WriteScripts(n) :
           VCI_Transmit(FALSE, n, replies)
    \/ \E n \in 0..1, avail \in 0..1 :
           VCI_Receive(FALSE, n, 0, avail, CANERR_RX_EMPTY)
    \/ InfoNext

SpecOps == Init /\ [][OpsNext]_vars


(***************************************************************************)
(* VCI_Receive called from several threads, one statement group per step:  *)
(* the entry check, the lock_guard, one iteration of the loop, the return. *)
(* VCI_OpenDevice and VCI_CloseDevice are the controlling thread's calls.  *)
(***************************************************************************)
\* line 446: if (g_canHandle < 0 || !out || maxCount == 0) return 0
Rx_Enter(t, outNull, maxCount, waitTime) ==
    /\ rx[t].pc = "idle"
    /\ rx' = [ rx EXCEPT ![t] =
                 IF ReceiveRefused(g_canHandle, outNull, maxCount)
                 THEN RxIdle
                 ELSE [ RxIdle EXCEPT !.pc = "lock", !.maxCount = maxCount,
                                      !.waitTime = waitTime ] ]
    /\ UNCHANGED << g_canHandle, g_lastBitrate, g_canStarted, lastOp, req,
                    pre, calls, ret, out, openHandles, bitrateStored,
                    g_rxMutex, codec, backend, tx >>

\* line 451: std::lock_guard lock(g_rxMutex)
Rx_Lock(t) ==
    /\ rx[t].pc = "lock"
    /\ MutexFree(g_rxMutex)
    /\ g_rxMutex' = t
    /\ rx' = [ rx EXCEPT ![t].pc = "loop" ]
    /\ UNCHANGED << g_canHandle, g_lastBitrate, g_canStarted, lastOp, req,
                    pre, calls, ret, out, openHandles, bitrateStored,
                    codec, backend, tx >>

\* lines 453-473: one iteration; r is what can_read returns
Rx_Read(t, r) ==
    /\ rx[t].pc = "loop"
    /\ rx' = [ rx EXCEPT ![t] =
                 IF rx[t].i >= rx[t].maxCount
                 THEN [ @ EXCEPT !.pc = "return" ]
                 ELSE IF ReadStops(r)
                 THEN [ @ EXCEPT !.pc = "return", !.handle = g_canHandle ]
                 ELSE [ @ EXCEPT !.i = @ + 1, !.received = @ + 1,
                                 !.handle = g_canHandle ] ]
    /\ UNCHANGED << g_canHandle, g_lastBitrate, g_canStarted, lastOp, req,
                    pre, calls, ret, out, openHandles, bitrateStored,
                    g_rxMutex, codec, backend, tx >>

\* line 475: return received; the lock_guard releases g_rxMutex
Rx_Return(t) ==
    /\ rx[t].pc = "return"
    /\ g_rxMutex' = 0
    /\ rx' = [ rx EXCEPT ![t] = [ RxIdle EXCEPT !.ret = rx[t].received ] ]
    /\ UNCHANGED << g_canHandle, g_lastBitrate, g_canStarted, lastOp, req,
                    pre, calls, ret, out, openHandles, bitrateStored,
                    codec, backend, tx >>

RxNext ==
    \/ \E h \in InitReplies : VCI_OpenDevice(h)
    \/ \E r \in StatusReplies : VCI_CloseDevice(r)
    \/ \E t \in Threads, n \in 0..MaxCount, w \in WaitTimes :
           Rx_Enter(t, FALSE, n, w)
    \/ \E t \in Threads : Rx_Enter(t, TRUE, 1, 0)
    \/ \E t \in Threads : Rx_Lock(t)
    \/ \E t \in Threads, r \in { CANERR_NOERROR } \cup ReadTerminals :
           Rx_Read(t, r)
    \/ \E t \in Threads : Rx_Return(t)

SpecRx == Init /\ [][RxNext]_vars

(***************************************************************************)
(* VCI_Receive over the range of its INT waitTime argument: the ends of    *)
(* the 32-bit range and the values around the 16-bit boundary of the       *)
(* uint16_t timeout.                                                       *)
(***************************************************************************)
WideWaitTimes == { -2147483647 - 1, -1, 0, 1, 100, 65534, 65535, 65536, 65537,
                   131071, 2147483647 }

WaitNext ==
    \/ \E h \in InitReplies : VCI_OpenDevice(h)
    \/ \E r \in StatusReplies : VCI_CloseDevice(r)
    \/ \E n \in 1..MaxCount, w \in WideWaitTimes, avail \in 0..MaxCount,
          terminal \in ReadTerminals :
           VCI_Receive(FALSE, n, w, avail, terminal)

SpecWait == Init /\ [][WaitNext]_vars

(***************************************************************************)
(* The frame conversions taken alone, over every BYTE length.  A           *)
(* conversion starts from a legacy frame (ConvertToCANAPI, then            *)
(* ConvertFromCANAPI on its result) or from a backend message              *)
(* (ConvertFromCANAPI), in ControlCAN.cpp or in logging.cpp.               *)
(***************************************************************************)
Payloads == { << 1, 2, 3, 4, 5, 6, 7, 8 >>, << 255, 0, 17, 0, 0, 0, 0, 128 >> }
FrameIds == { 291, 536870911 }

LegacyFrames ==
    [ ID : FrameIds, TimeStamp : { 5 }, TimeFlag : { 1 }, SendType : { 2 },
      RemoteFlag : { 0, 1, ByteMax }, ExternFlag : { 0, 1, 2 },
      DataLen : 0..ByteMax, Data : Payloads, Reserved : { << 7, 7, 7 >> } ]

BackendMsgs ==
    [ id : FrameIds, xtd : { 0, 1 }, rtr : { 0, 1 }, sts : { 0 },
      dlc : 0..ByteMax, data : Payloads ]

Logging_BackendMsgs ==
    [ id : FrameIds, xtd : { 0, 1 }, rtr : { 0, 1 },
      len : 0..ByteMax, data : Payloads ]

SpillBytes == { 0, ByteMax }

CodecInputs ==
    { [ CodecIdle EXCEPT !.variant = "ControlCAN", !.origin = "legacy",
                         !.stage = "frame", !.frame = f ] : f \in LegacyFrames }
    \cup
    { [ CodecIdle EXCEPT !.variant = "logging", !.origin = "legacy",
                         !.stage = "frame", !.frame = f ] : f \in LegacyFrames }
    \cup
    { [ CodecIdle EXCEPT !.variant = "ControlCAN", !.origin = "backend",
                         !.stage = "msg", !.msg = m ] : m \in BackendMsgs }
    \cup
    { [ CodecIdle EXCEPT !.variant = "logging", !.origin = "backend",
                         !.stage = "msg", !.msg = m ] :
        m \in Logging_BackendMsgs }

CodecInit ==
    /\ g_canHandle   = CANAPI_HANDLE
    /\ g_lastBitrate = 0
    /\ g_canStarted  = FALSE
    /\ lastOp = "none"
    /\ req    = NoReq
    /\ pre    = [ handle |-> CANAPI_HANDLE, bitrate |-> 0, started |-> FALSE ]
    /\ calls  = << >>
    /\ ret    = 0
    /\ out    = << >>
    /\ openHandles   = 0
    /\ bitrateStored = FALSE
    /\ g_rxMutex     = 0
    /\ rx            = [ t \in Threads |-> RxIdle ]
    /\ codec \in CodecInputs
    /\ backend       = Backend0("none")
    /\ tx            = TxIdle

Codec_ToCANAPI ==
    /\ codec.stage = "frame"
    /\ codec.variant = "ControlCAN"
    /\ codec' = [ codec EXCEPT !.stage = "msg",
                               !.msg = ConvertToCANAPI(codec.frame),
                               !.copiedTo = CopiedToCANAPI(codec.frame) ]
    /\ UNCHANGED << g_canHandle, g_lastBitrate, g_canStarted, lastOp, req,
                    pre, calls, ret, out, openHandles, bitrateStored,
                    g_rxMutex, rx, backend, tx >>

Codec_FromCANAPI ==
    /\ codec.stage = "msg"
    /\ codec.variant = "ControlCAN"
    /\ codec' = [ codec EXCEPT !.stage = "back",
                               !.back = ConvertFromCANAPI(codec.msg),
                               !.copiedFrom = CopiedFromCANAPI(codec.msg) ]
    /\ UNCHANGED << g_canHandle, g_lastBitrate, g_canStarted, lastOp, req,
                    pre, calls, ret, out, openHandles, bitrateStored,
                    g_rxMutex, rx, backend, tx >>

\* logging.cpp: a copy that overruns either completes, or the process faults
Codec_Logging_ToCANAPI(fault) ==
    /\ codec.stage = "frame"
    /\ codec.variant = "logging"
    /\ fault => Logging_CopiedToCANAPI(codec.frame) > 8
    /\ codec' = IF fault THEN [ codec EXCEPT !.stage = "fault" ]
                ELSE [ codec EXCEPT
                         !.stage = "msg",
                         !.msg = Logging_ConvertToCANAPI(codec.frame),
                         !.copiedTo = Logging_CopiedToCANAPI(codec.frame) ]
    /\ UNCHANGED << g_canHandle, g_lastBitrate, g_canStarted, lastOp, req,
                    pre, calls, ret, out, openHandles, bitrateStored,
                    g_rxMutex, rx, backend, tx >>

Codec_Logging_FromCANAPI(fault, spill) ==
    /\ codec.stage = "msg"
    /\ codec.variant = "logging"
    /\ fault => Logging_CopiedFromCANAPI(codec.msg) > 8
    /\ codec' = IF fault THEN [ codec EXCEPT !.stage = "fault" ]
                ELSE [ codec EXCEPT
                         !.stage = "back",
                         !.back = Logging_ConvertFromCANAPI(codec.msg, spill),
                         !.copiedFrom = Logging_CopiedFromCANAPI(codec.msg) ]
    /\ UNCHANGED << g_canHandle, g_lastBitrate, g_canStarted, lastOp, req,
                    pre, calls, ret, out, openHandles, bitrateStored,
                    g_rxMutex, rx, backend, tx >>

CodecNext ==
    \/ Codec_ToCANAPI
    \/ Codec_FromCANAPI
    \/ \E fault \in BOOLEAN : Codec_Logging_ToCANAPI(fault)
    \/ \E fault \in BOOLEAN, spill \in SpillBytes :
           Codec_Logging_FromCANAPI(fault, spill)

SpecCodec == CodecInit /\ [][CodecNext]_vars

(***************************************************************************)
(* VCI_InitCAN over every pair of timing registers: the device is opened,  *)
(* then configured once.                                                   *)
(***************************************************************************)
Timing_Open ==
    /\ lastOp = "none"
    /\ VCI_OpenDevice(0)

Timing_InitCAN ==
    /\ lastOp = "Open"
    /\ \E t0 \in 0..ByteMax, t1 \in 0..ByteMax : VCI_InitCAN(FALSE, t0, t1)

TimingNext ==
    \/ Timing_Open
    \/ Timing_InitCAN

SpecTiming == Init /\ [][TimingNext]_vars

(***************************************************************************)
(* VCI_ReadErrInfo over every status byte, on an open or a closed device.  *)
(***************************************************************************)
StatusNext ==
    \/ \E h \in InitReplies : VCI_OpenDevice(h)
    \/ \E r \in StatusReplies : VCI_CloseDevice(r)
    \/ VCI_ReadErrInfo(TRUE, CANERR_NOERROR, 0)
    \/ \E r \in StatusReplies, status \in 0..ByteMax :
           VCI_ReadErrInfo(FALSE, r, status)

SpecStatus == Init /\ [][StatusNext]_vars

(***************************************************************************)
(* The adapter on a loopback backend that accepts every call: what         *)
(* can_write took is what can_read hands out, in order.  A read finds      *)
(* what is queued and then CANERR_RX_EMPTY.                                *)
(***************************************************************************)
LoopInit ==
    /\ g_canHandle   = CANAPI_HANDLE
    /\ g_lastBitrate = 0
    /\ g_canStarted  = FALSE
    /\ lastOp = "none"
    /\ req    = NoReq
    /\ pre    = [ handle |-> CANAPI_HANDLE, bitrate |-> 0, started |-> FALSE ]
    /\ calls  = << >>
    /\ ret    = 0
    /\ out    = << >>
    /\ openHandles   = 0
    /\ bitrateStored = FALSE
    /\ g_rxMutex     = 0
    /\ rx            = [ t \in Threads |-> RxIdle ]
    /\ codec         = CodecIdle
    /\ backend       = Backend0("loopback")
    /\ tx            = TxIdle

\* every can_write accepted at the first attempt
Accepted(n) == [ k \in 1..n |-> [ busy |-> 0, final |-> CANERR_NOERROR ] ]

\* the smaller of two numbers
Min(a, b) == IF a < b THEN a ELSE b

Loop_Transmit(n) ==
    /\ Len(backend.queue) + n <= MaxQueue
    /\ VCI_Transmit(FALSE, n, Accepted(n))

Loop_Receive(n) ==
    VCI_Receive(FALSE, n, 0, Min(n, Len(backend.queue)), CANERR_RX_EMPTY)

LoopNext ==
    \/ VCI_OpenDevice(0)
    \/ VCI_CloseDevice(CANERR_NOERROR)
    \/ VCI_InitCAN(FALSE, 0, 28)
    \/ VCI_StartCAN(CANERR_NOERROR)
    \/ VCI_ResetCAN(CANERR_NOERROR)
    \/ \E n \in 1..MaxCount : Loop_Transmit(n)
    \/ \E n \in 1..MaxCount : Loop_Receive(n)

SpecLoop == LoopInit /\ [][LoopNext]_vars


(***************************************************************************)
(* The lifecycle operations called one after another from a single thread  *)
(* against a controller that is online after a successful can_start and    *)
(* offline after a successful can_reset, with every status the backend may *)
(* return.                                                                 *)
(***************************************************************************)
CtlInit ==
    /\ g_canHandle   = CANAPI_HANDLE
    /\ g_lastBitrate = 0
    /\ g_canStarted  = FALSE
    /\ lastOp = "none"
    /\ req    = NoReq
    /\ pre    = [ handle |-> CANAPI_HANDLE, bitrate |-> 0, started |-> FALSE ]
    /\ calls  = << >>
    /\ ret    = 0
    /\ out    = << >>
    /\ openHandles   = 0
    /\ bitrateStored = FALSE
    /\ g_rxMutex     = 0
    /\ rx            = [ t \in Threads |-> RxIdle ]
    /\ codec         = CodecIdle
    /\ backend       = Backend0("controller")
    /\ tx            = TxIdle

CtlNext ==
    \/ \E h \in InitReplies : VCI_OpenDevice(h)
    \/ \E r \in StatusReplies : VCI_CloseDevice(r)
    \/ \E cfgNull \in BOOLEAN, t \in TimingPairs :
           VCI_InitCAN(cfgNull, t[1], t[2])
    \/ \E r \in StatusReplies : VCI_StartCAN(r)
    \/ \E r \in StatusReplies : VCI_ResetCAN(r)
    \/ \E r1 \in StatusReplies, r2 \in StatusReplies : VCI_ClearBuffer(r1, r2)

SpecCtl == CtlInit /\ [][CtlNext]_vars

(***************************************************************************)
(* VCI_Transmit taken one can_write at a time, called from the thread      *)
(* that opens and closes the device.  tx.busy counts the busy replies to   *)
(* the current frame up to MaxRetries; the loop itself does not count.     *)
(***************************************************************************)
\* lines 409-410: the entry check; frames[0..count-1] given
Tx_Enter(count) ==
    /\ tx.pc = "idle"
    /\ tx' = IF TransmitRefused(g_canHandle, FALSE, count)
             THEN TxIdle
             ELSE [ TxIdle EXCEPT !.pc = "write", !.count = count ]
    /\ UNCHANGED << g_canHandle, g_lastBitrate, g_canStarted, lastOp, req,
                    pre, calls, ret, out, openHandles, bitrateStored,
                    g_rxMutex, rx, codec, backend >>

\* lines 420-431: one can_write of frame i, and what the loop does with r
Tx_Write(r) ==
    /\ tx.pc = "write"
    /\ tx' = IF RetryWrite(r)
             THEN [ tx EXCEPT !.r = r,
                              !.busy = IF @ < MaxRetries THEN @ + 1 ELSE @ ]
             ELSE IF WriteRejected(r)
             THEN [ tx EXCEPT !.r = r, !.pc = "return" ]
             ELSE [ tx EXCEPT !.r = r, !.busy = 0, !.sent = @ + 1,
                              !.i = @ + 1,
                              !.pc = IF tx.i + 1 < tx.count THEN "write"
                                     ELSE "return" ]
    /\ UNCHANGED << g_canHandle, g_lastBitrate, g_canStarted, lastOp, req,
                    pre, calls, ret, out, openHandles, bitrateStored,
                    g_rxMutex, rx, codec, backend >>

\* line 433: return sent
Tx_Return ==
    /\ tx.pc = "return"
    /\ tx' = [ TxIdle EXCEPT !.ret = tx.sent, !.r = tx.r ]
    /\ UNCHANGED << g_canHandle, g_lastBitrate, g_canStarted, lastOp, req,
                    pre, calls, ret, out, openHandles, bitrateStored,
                    g_rxMutex, rx, codec, backend >>

\* the same thread opens and closes the device between its transmissions
Tx_Open(h) ==
    /\ tx.pc = "idle"
    /\ VCI_OpenDevice(h)

Tx_Close(r) ==
    /\ tx.pc = "idle"
    /\ VCI_CloseDevice(r)

\* can_write answers that are not busy
Tx_Answered == \E r \in WriteFinals : Tx_Write(r)

TxNext ==
    \/ \E h \in InitReplies : Tx_Open(h)
    \/ \E r \in StatusReplies : Tx_Close(r)
    \/ \E n \in 0..MaxCount : Tx_Enter(n)
    \/ Tx_Write(CANERR_TX_BUSY)
    \/ Tx_Answered
    \/ Tx_Return

SpecTx == Init /\ [][TxNext]_vars

\* the backend answers every frame in the end, and the thread keeps running
SpecTxFair == SpecTx /\ WF_vars(Tx_Answered) /\ WF_vars(Tx_Return)

(***************************************************************************)
(* Properties.  They speak about the last call: lastOp, its arguments req, *)
(* the globals pre it started from, the backend calls it issued and ret.   *)
(***************************************************************************)
\* the backend functions the last call issued, in order
CallFns == [ i \in 1..Len(calls) |-> calls[i].fn ]

\* C1: a Transmit or Receive invoked while the started flag is false (Closed
\* or Configured) returns 0 and issues no backend write or read call.
C1_NotStartedNoTraffic ==
    (lastOp \in { "Transmit", "Receive" } /\ ~pre.started)
        => (ret = 0 /\ calls = << >>)

\* C2: in every reachable state, started implies that the handle is not the
\* closed sentinel (handle >= 0) and that a bitrate index has been stored
\* since the handle was acquired.
C2_StartedImpliesHandleAndBitrate ==
    g_canStarted =>
        (g_canHandle >= 0 /\ g_canHandle # CANAPI_HANDLE /\ bitrateStored)

C2_Witness ==
    g_canStarted /\ lastOp = "Start" /\ ~pre.started

\* C3: Open called while a handle is held returns success, issues no backend
\* call and leaves handle, stored bitrate and started flag unchanged; exactly
\* one backend handle is held afterwards.
C3_OpenIdempotent ==
    (lastOp = "Open" /\ pre.handle >= 0)
        => /\ ret = STATUS_OK
           /\ calls = << >>
           /\ Snapshot = pre
           /\ openHandles = 1

C3_Witness ==
    lastOp = "Open" /\ pre.handle = 0 /\ pre.started /\ openHandles = 1

\* C4: Open from Closed issues exactly one can_init; a non-negative result
\* is stored as the handle, with started false and bitrate index 250K; a
\* negative result makes Open fail and leaves the session Closed and the
\* globals unchanged.
C4_OpenFromClosed ==
    (lastOp = "Open" /\ pre.handle < 0)
        => /\ CallFns = << "can_init" >>
           /\ IF calls[1].r >= 0
              THEN /\ ret = STATUS_OK
                   /\ g_canHandle = calls[1].r
                   /\ ~g_canStarted
                   /\ g_lastBitrate = CANBTR_INDEX_250K
              ELSE /\ ret = STATUS_ERR
                   /\ Snapshot = pre

C4_Witness ==
    /\ lastOp = "Open"
    /\ pre.handle < 0
    /\ pre.bitrate = CANBTR_INDEX_500K
    /\ ret = STATUS_OK
    /\ g_canHandle = 0

\* C5: Close from any state returns success and leaves the session Closed
\* whatever can_exit returned; can_exit is issued exactly when a handle was
\* held; an Open that follows a Close issues can_init.
C5_CloseState ==
    lastOp = "Close"
        => /\ ret = STATUS_OK
           /\ g_canHandle = CANAPI_HANDLE
           /\ ~g_canStarted
           /\ IF pre.handle >= 0
              THEN CallFns = << "can_exit" >> /\ calls[1].handle = pre.handle
              ELSE calls = << >>

C5_CloseAlwaysCloses ==
    /\ []C5_CloseState
    /\ [][ (lastOp = "Close" /\ lastOp' = "Open")
               => CallFns' = << "can_init" >> ]_vars

C5_Witness ==
    /\ lastOp = "Close"
    /\ pre.started
    /\ Len(calls) = 1
    /\ calls[1].r < 0
    /\ g_canHandle = CANAPI_HANDLE

\* C6: a Configure that returns failure leaves stored bitrate, handle and
\* started flag exactly as they were before the call.
C6_ConfigureFailureKeepsState ==
    (lastOp = "Configure" /\ ret = STATUS_ERR) => Snapshot = pre

C6_Witness ==
    /\ lastOp = "Configure"
    /\ ret = STATUS_ERR
    /\ req.Timing0 = 255 /\ req.Timing1 = 255
    /\ pre.started
    /\ pre.bitrate = CANBTR_INDEX_500K

\* C7: Configure invoked while no handle is held returns failure and does
\* not change the stored bitrate.
C7_ConfigureClosedFails ==
    (lastOp = "Configure" /\ pre.handle < 0)
        => (ret = STATUS_ERR /\ g_lastBitrate = pre.bitrate)

\* C8: Start with a handle held issues exactly one can_start carrying the
\* stored bitrate; a non-negative result makes the session Running; a
\* negative result makes Start fail and leaves the globals unchanged.
C8_StartWithHandle ==
    (lastOp = "Start" /\ pre.handle >= 0)
        => /\ CallFns = << "can_start" >>
           /\ calls[1].handle = pre.handle
           /\ calls[1].bitrate = pre.bitrate
           /\ IF calls[1].r >= 0
              THEN /\ ret = STATUS_OK
                   /\ g_canStarted
                   /\ g_canHandle = pre.handle
                   /\ g_lastBitrate = pre.bitrate
              ELSE /\ ret = STATUS_ERR
                   /\ Snapshot = pre

C8_Witness ==
    /\ lastOp = "Start"
    /\ pre.started
    /\ pre.bitrate = CANBTR_INDEX_500K
    /\ Len(calls) = 1
    /\ ret = STATUS_OK

\* C9: Stop with a handle held issues one can_reset; on success or
\* CANERR_OFFLINE it returns success and the session is Configured with
\* handle and stored bitrate kept; on any other negative status it returns
\* failure and the started flag is unchanged.
C9_StopWithHandle ==
    (lastOp = "Stop" /\ pre.handle >= 0)
        => /\ CallFns = << "can_reset" >>
           /\ calls[1].handle = pre.handle
           /\ IF calls[1].r >= 0 \/ calls[1].r = CANERR_OFFLINE
              THEN /\ ret = STATUS_OK
                   /\ ~g_canStarted
                   /\ g_canHandle = pre.handle
                   /\ g_lastBitrate = pre.bitrate
              ELSE /\ ret = STATUS_ERR
                   /\ g_canStarted = pre.started

C9_Witness ==
    /\ lastOp = "Stop"
    /\ pre.started
    /\ Len(calls) = 1
    /\ calls[1].r = CANERR_OFFLINE
    /\ ret = STATUS_OK
    /\ ~g_canStarted

\* C10: ClearBuffer while Running issues can_reset and then can_start with
\* the stored bitrate and leaves the session Running; while Configured it
\* issues only can_reset and leaves the session Configured.
C10_ClearBufferKeepsLifecycle ==
    (lastOp = "ClearBuffer" /\ pre.handle >= 0)
        => /\ g_canHandle = pre.handle
           /\ IF pre.started
              THEN /\ CallFns = << "can_reset", "can_start" >>
                   /\ calls[2].handle = pre.handle
                   /\ calls[2].bitrate = pre.bitrate
                   /\ g_canStarted
              ELSE /\ CallFns = << "can_reset" >>
                   /\ ~g_canStarted

C10_Witness ==
    /\ lastOp = "ClearBuffer"
    /\ pre.started
    /\ Len(calls) = 2
    /\ calls[2].bitrate = CANBTR_INDEX_500K
    /\ g_canStarted

\* C11: with a handle held, ClearBuffer returns failure exactly when can_reset
\* returned a negative status other than CANERR_OFFLINE or the restart, which
\* is issued only when the session was Running, returned a negative status.
C11_ClearBufferFailsIffFatal ==
    (lastOp = "ClearBuffer" /\ pre.handle >= 0)
        => /\ Len(calls) \in { 1, 2 }
           /\ Len(calls) = 2 <=> pre.started
           /\ LET resetFatal  == calls[1].r < 0 /\ calls[1].r # CANERR_OFFLINE
                  restartFail == Len(calls) = 2 /\ calls[2].r < 0
              IN  /\ ret \in { STATUS_OK, STATUS_ERR }
                  /\ ret = STATUS_ERR <=> (resetFatal \/ restartFail)

C11_Witness ==
    /\ lastOp = "ClearBuffer"
    /\ pre.started
    /\ Len(calls) = 2
    /\ calls[1].r = CANERR_OFFLINE
    /\ calls[2].r = CANERR_NOERROR
    /\ ret = STATUS_OK

\* the calls of the last operation that did not end in CANERR_TX_BUSY
Answered == SelectSeq(calls, LAMBDA c : c.r # CANERR_TX_BUSY)

\* the last call ran the loop of VCI_Transmit
Transmitted ==
    lastOp = "Transmit" /\ pre.handle >= 0 /\ ~req.bufNull /\ req.count > 0

\* C12: Transmit offers the frames in input order, offers frame i+1 only after
\* frame i was accepted, stops at the first frame whose write returns a
\* negative non-busy status and returns the number of accepted frames, which
\* is the index of the first rejected frame or count; 0 <= ret <= count.
C12_TransmitInOrderShortWrite ==
    /\ lastOp = "Transmit" => (ret >= 0 /\ ret <= req.count)
    /\ Transmitted =>
          /\ \A i \in 1..Len(calls) :
                 calls[i].fn = "can_write" /\ calls[i].handle = pre.handle
          /\ Len(Answered) >= 1 /\ Len(Answered) <= req.count
          /\ \A k \in 1..Len(Answered) :
                 /\ Answered[k].msg = ConvertToCANAPI(TxFrame(k))
                 /\ k < Len(Answered) => Answered[k].r >= 0
          /\ calls[Len(calls)] = Answered[Len(Answered)]
          /\ IF Answered[Len(Answered)].r < 0
             THEN ret = Len(Answered) - 1
             ELSE ret = req.count /\ Len(Answered) = req.count

C12_Witness ==
    /\ Transmitted
    /\ req.count = 2
    /\ Len(calls) = 2
    /\ calls[2].r < 0
    /\ ret = 1

\* the answers of a backend that is never busy, as far as the log has them
AnswersWithoutBusy ==
    [ k \in 1..req.count |->
        [ busy  |-> 0,
          final |-> IF k <= Len(Answered) THEN Answered[k].r
                    ELSE CANERR_NOERROR ] ]

\* C13: a CANERR_TX_BUSY reply is never counted as a rejection: the same
\* frame is written again, and the returned count is the one the same
\* answers give without any busy reply.
C13_BusyIsRetried ==
    Transmitted =>
        /\ \A i \in 1..Len(calls) :
               calls[i].r = CANERR_TX_BUSY
                   => (i < Len(calls) /\ calls[i + 1].msg = calls[i].msg)
        /\ ret = TransmitLoop(1, 0, << >>, pre.handle, req.count,
                              AnswersWithoutBusy).sent

C13_Witness ==
    /\ Transmitted
    /\ req.count = 2
    /\ Len(calls) = 2 + 2 * MaxBusy
    /\ calls[1].r = CANERR_TX_BUSY
    /\ ret = 2

\* the last call ran the loop of VCI_Receive
Received ==
    lastOp = "Receive" /\ pre.handle >= 0 /\ ~req.bufNull /\ req.count > 0

\* C15: Receive returns the number k of frames the backend delivered before
\* the first empty or error reply, at most maxCount; it writes them to
\* out[0..k-1] in delivery order and no other slot, and issues at most
\* maxCount reads; with timeout 0 and an empty queue it returns 0 after one
\* read.
C15_ReceiveCountsDelivered ==
    Received =>
        /\ Len(calls) >= 1 /\ Len(calls) <= req.count
        /\ \A i \in 1..Len(calls) :
               /\ calls[i].fn = "can_read"
               /\ i < Len(calls) => calls[i].r >= 0
        /\ ret = Cardinality({ i \in 1..Len(calls) : calls[i].r >= 0 })
        /\ ret <= req.count
        /\ Len(out) = req.count
        /\ \A j \in 1..req.count :
               out[j] = IF j <= ret THEN ConvertFromCANAPI(RxMsg(j))
                        ELSE StaleFrame
        /\ (req.waitTime = 0 /\ calls[1].r = CANERR_RX_EMPTY)
               => (ret = 0 /\ Len(calls) = 1 /\ calls[1].timeout = 0)

C15_Witness ==
    /\ Received
    /\ req.count = 2
    /\ ret = 1
    /\ Len(calls) = 2
    /\ calls[2].r = CANERR_RX_EMPTY
    /\ out[2] = StaleFrame

\* a thread is between its first can_read and its return only in these
InReadLoop(t) == rx[t].pc \in { "loop", "return" }

\* C14: with any number of threads calling Receive, at most one thread is
\* between its first backend read and its return: the read loop is entered
\* only while holding g_rxMutex, and the lock is released on every exit.
C14_ReceiveMutualExclusion ==
    /\ Cardinality({ t \in Threads : InReadLoop(t) }) <= 1
    /\ \A t \in Threads : InReadLoop(t) <=> g_rxMutex = t
    /\ (\A t \in Threads : rx[t].pc \in { "idle", "lock" }) => g_rxMutex = 0

C14_Witness ==
    \E t, u \in Threads :
        /\ t # u
        /\ rx[t].pc = "loop" /\ rx[t].received >= 1
        /\ rx[u].pc = "lock"
        /\ rx[u].maxCount >= 1

\* C16: for every signed 32-bit waitTime, each can_read of a Receive gets the
\* infinite timeout when waitTime < 0, 0 when waitTime = 0, and for every
\* waitTime > 0 a bounded wait of exactly waitTime milliseconds.
C16_TimeoutPerRead ==
    lastOp = "Receive" =>
        \A k \in 1..Len(calls) :
            calls[k].timeout =
                IF req.waitTime < 0 THEN CANWAIT_INFINITE
                ELSE IF req.waitTime = 0 THEN 0
                ELSE req.waitTime

\* the first n bytes of two payloads agree
SamePrefix(a, b, n) == \A i \in 1..8 : i <= n => a[i] = b[i]

\* C17: in ControlCAN.cpp, converting a legacy frame to the backend and back
\* keeps the identifier, the extended and remote flags as booleans, and, for
\* length 0..8, the length and the first length payload bytes; a length above
\* 8 comes back as 8 with exactly the first 8 payload bytes.
C17_RoundTrip ==
    (codec.variant = "ControlCAN" /\ codec.origin = "legacy"
       /\ codec.stage = "back") =>
        LET f == codec.frame
            b == codec.back
            n == IF f.DataLen > 8 THEN 8 ELSE f.DataLen
        IN  /\ b.ID = f.ID
            /\ (b.ExternFlag # 0) = (f.ExternFlag # 0)
            /\ (b.RemoteFlag # 0) = (f.RemoteFlag # 0)
            /\ b.DataLen = n
            /\ SamePrefix(b.Data, f.Data, n)

C17_Witness ==
    /\ codec.variant = "ControlCAN" /\ codec.origin = "legacy"
    /\ codec.stage = "back"
    /\ codec.frame.DataLen = ByteMax
    /\ codec.frame.ExternFlag = 2
    /\ codec.back.DataLen = 8
    /\ codec.back.Data = codec.frame.Data

\* the length field of a backend message: dlc in ControlCAN.cpp, len in
\* logging.cpp
MsgLen(variant, m) == IF variant = "logging" THEN m.len ELSE m.dlc

\* the payload bytes after the first n are zero
ZeroBeyond(data, n) == \A i \in 1..8 : i > n => data[i] = 0

\* C18: in every frame conversion, in both directions and in both
\* ControlCAN.cpp and logging.cpp, for every input length 0..255 the produced
\* length is at most 8, at most 8 payload bytes are copied, and the bytes
\* beyond the produced length are zero.
C18_PayloadAtMost8 ==
    /\ (codec.origin = "legacy" /\ codec.stage \in { "msg", "back" }) =>
           /\ MsgLen(codec.variant, codec.msg) <= 8
           /\ codec.copiedTo <= 8
           /\ ZeroBeyond(codec.msg.data, MsgLen(codec.variant, codec.msg))
    /\ codec.stage = "back" =>
           /\ codec.back.DataLen <= 8
           /\ codec.copiedFrom <= 8
           /\ ZeroBeyond(codec.back.Data, codec.back.DataLen)

\* the documented composite register values of the standard rates and the
\* bitrate index of each
TimingIndexTable ==
    { << 20, CANBTR_INDEX_1M >>,      << 22, CANBTR_INDEX_800K >>,
      << 28, CANBTR_INDEX_500K >>,    << 284, CANBTR_INDEX_250K >>,
      << 796, CANBTR_INDEX_125K >>,   << 17199, CANBTR_INDEX_100K >>,
      << 18223, CANBTR_INDEX_50K >>,  << 21295, CANBTR_INDEX_20K >>,
      << 26415, CANBTR_INDEX_10K >> }

UnmappedErrBits ==
    { ERR_CAN_OVERFLOW, ERR_CAN_ERRALARM, ERR_CAN_LOSE, ERR_CAN_BUSERR,
      ERR_CAN_BUFFER_OVERFLOW }

GuardedOps ==
    { "Start", "Stop", "ClearBuffer", "Transmit", "Receive", "SetReference",
      "GetReference", "ReadErrInfo", "ReadBoardInfo", "ReadCANStatus",
      "GetReceiveNum" }

\* C21: while the session is Closed, every operation other than Open, Close
\* and Configure returns failure status or a zero count, issues no backend
\* call, and leaves handle, stored bitrate and started flag unchanged.
C21_ClosedOpsHaveNoEffect ==
    (lastOp \in GuardedOps /\ pre.handle < 0) =>
        /\ ret = IF lastOp \in { "Transmit", "Receive", "GetReceiveNum" }
                 THEN 0 ELSE STATUS_ERR
        /\ calls = << >>
        /\ Snapshot = pre

C21_Witness ==
    /\ lastOp = "ReadBoardInfo"
    /\ ~req.bufNull
    /\ pre.handle = CANAPI_HANDLE
    /\ pre.bitrate = CANBTR_INDEX_500K
    /\ ret = STATUS_ERR

\* the session is Running and the controller was started at 500K
Running500K ==
    /\ g_canHandle >= 0
    /\ g_canStarted
    /\ backend.online
    /\ backend.bitrate = CANBTR_INDEX_500K

\* C22: against a loopback backend that accepts every call, Open,
\* Configure(0x00, 0x1C), Start leaves the backend started at the 500K
\* index; Transmit of the one frame {id 0x123, standard, data, 1 2 3} then
\* returns 1, and the Receive(maxCount 1, timeout 0) that follows returns 1
\* with a frame of the same identifier, flags, length 3 and data bytes.
C22_LoopbackScenario ==
    /\ [][(lastOp = "Open" /\ g_canHandle >= 0 /\ lastOp' = "Configure")
            => (ret' = STATUS_OK /\ g_lastBitrate' = CANBTR_INDEX_500K)]_vars
    /\ [][(lastOp = "Configure" /\ g_canHandle >= 0
             /\ g_lastBitrate = CANBTR_INDEX_500K /\ lastOp' = "Start")
            => (ret' = STATUS_OK /\ Running500K')]_vars
    /\ [][(lastOp = "Start" /\ Running500K /\ backend.queue = << >>
             /\ lastOp' = "Transmit" /\ req'.count = 1)
            => (/\ ret' = 1
                /\ Running500K'
                /\ backend'.queue = << ConvertToCANAPI(TxFrame(1)) >>)]_vars
    /\ [][(lastOp = "Transmit" /\ req.count = 1 /\ ret = 1
             /\ Len(backend.queue) = 1
             /\ lastOp' = "Receive" /\ req'.count = 1)
            => (/\ ret' = 1
                /\ req'.waitTime = 0
                /\ out'[1].ID = 291
                /\ out'[1].ExternFlag = 0
                /\ out'[1].RemoteFlag = 0
                /\ out'[1].DataLen = 3
                /\ out'[1].Data = << 1, 2, 3, 0, 0, 0, 0, 0 >>
                /\ backend'.queue = << >>)]_vars

C22_Witness ==
    /\ lastOp = "Receive"
    /\ req.count = 1
    /\ ret = 1
    /\ Running500K
    /\ out[1].ID = 291
    /\ out[1].DataLen = 3
    /\ backend.queue = << >>

\* C23: if the backend in the end answers each frame with something other
\* than busy, Transmit returns after finitely many writes; a busy answer
\* never ends the loop, whatever the number of busy answers before it, so
\* with busy forever Transmit never returns.
C23_TransmitTermination ==
    /\ (tx.pc = "write") ~> (tx.pc = "idle")
    /\ [][(tx.pc = "write" /\ tx'.r = CANERR_TX_BUSY /\ tx' # tx)
            => (/\ tx'.pc = "write"
                /\ tx'.i = tx.i
                /\ tx'.sent = tx.sent
                /\ tx'.count = tx.count)]_vars

C23_Witness ==
    /\ tx.pc = "write"
    /\ tx.count = MaxCount
    /\ tx.sent = MaxCount - 1
    /\ tx.r = CANERR_TX_BUSY
    /\ tx.busy = MaxRetries

\* C24: Configure, whether it succeeds or fails, issues no backend call and
\* leaves the handle and the started flag unchanged; a successful Configure
\* changes only the stored bitrate.
C24_ConfigureTouchesOnlyBitrate ==
    lastOp = "Configure" =>
        /\ calls = << >>
        /\ g_canHandle = pre.handle
        /\ g_canStarted = pre.started
        /\ ret = STATUS_ERR => g_lastBitrate = pre.bitrate

C24_Witness ==
    /\ lastOp = "Configure"
    /\ ret = STATUS_OK
    /\ pre.started
    /\ pre.bitrate = CANBTR_INDEX_250K
    /\ g_lastBitrate = CANBTR_INDEX_500K
    /\ g_canStarted

\* C25: for every backend frame, the legacy frame that ConvertFromCANAPI of
\* ControlCAN.cpp produces has timestamp, time flag, send type and all
\* reserved bytes zero, whatever the caller's slot held before and whatever
\* the backend frame holds.
C25_AuxiliaryFieldsZero ==
    (codec.variant = "ControlCAN" /\ codec.stage = "back") =>
        /\ codec.back.TimeStamp = 0
        /\ codec.back.TimeFlag = 0
        /\ codec.back.SendType = 0
        /\ codec.back.Reserved = << 0, 0, 0 >>

C25_Witness ==
    /\ codec.variant = "ControlCAN"
    /\ codec.origin = "backend"
    /\ codec.stage = "back"
    /\ codec.msg.dlc = ByteMax
    /\ codec.msg.xtd = 1
    /\ codec.back.TimeStamp = 0
    /\ codec.back.ExternFlag = 1

\* C26: VCI_ClearBuffer called while started calls can_start after can_reset
\* even when can_reset returned a fatal status (negative and not
\* CANERR_OFFLINE), whatever can_start then returns, and returns STATUS_ERR.
C26_RestartAfterFailedReset ==
    ( /\ lastOp = "ClearBuffer"
      /\ HandleHeld(pre.handle)
      /\ pre.started
      /\ Len(calls) >= 1
      /\ ResetFailed(calls[1].r) ) =>
        /\ CallFns = << "can_reset", "can_start" >>
        /\ calls[2].handle = pre.handle
        /\ calls[2].bitrate = pre.bitrate
        /\ ret = STATUS_ERR

C26_Witness ==
    /\ lastOp = "ClearBuffer"
    /\ pre.started
    /\ CallFns = << "can_reset", "can_start" >>
    /\ ResetFailed(calls[1].r)
    /\ calls[2].r = CANERR_NOERROR
    /\ ret = STATUS_ERR

\* C27: in every state reached by lifecycle operations called one after
\* another, with the controller online after a successful can_start and
\* offline after a successful can_reset, g_canStarted implies the controller
\* is online, and a held handle with g_canStarted false implies it is
\* offline.
C27_FlagMatchesController ==
    /\ g_canStarted => backend.online
    /\ (~g_canStarted /\ HandleHeld(g_canHandle)) => ~backend.online

\* C28: whenever g_canStarted is true, the bitrate of the last successful
\* can_start equals g_lastBitrate, so the can_start of VCI_ClearBuffer
\* restarts the controller at the bitrate it was running at.
C28_RunningBitrateIsStored ==
    g_canStarted => backend.bitrate = g_lastBitrate

\* C29: with VCI_OpenDevice and VCI_CloseDevice called by one thread while
\* other threads are inside VCI_Receive, every can_read is passed a handle
\* that is held (never CANAPI_HANDLE, the value VCI_CloseDevice leaves),
\* also when the caller passed the check of g_canHandle before the close.
C29_NoReadAfterClose ==
    \A t \in Threads :
        (rx[t].pc = "return" \/ (rx[t].pc = "loop" /\ rx[t].i > 0)) =>
            HandleHeld(rx[t].handle)

\* C30: a VCI_Receive called with waitTime 0 never has to wait for another
\* caller: it is never kept at the lock_guard by a VCI_Receive with a
\* negative waitTime that is inside its can_read loop.
C30_NonBlockingNeverWaits ==
    \A u \in Threads, t \in Threads :
        ~( /\ rx[u].pc = "lock"
           /\ rx[u].waitTime = 0
           /\ g_rxMutex = t
           /\ rx[t].pc = "loop"
           /\ rx[t].waitTime < 0 )

\* C31: over every sequence of operations called one after another, with
\* every result the backend may return, the number of handles that can_init
\* returned and that were not yet passed to can_exit is 1 exactly when a
\* handle is held and 0 when none is; can_exit is called only with the held
\* handle and leaves none behind, and can_init is never called while a
\* handle is held.
C31_NoHandleLeak ==
    /\ openHandles = (IF HandleHeld(g_canHandle) THEN 1 ELSE 0)
    /\ \A i \in 1..Len(calls) :
           /\ calls[i].fn = "can_exit" =>
                  /\ HandleHeld(pre.handle)
                  /\ calls[i].handle = pre.handle
                  /\ openHandles = 0
           /\ calls[i].fn = "can_init" => ~HandleHeld(pre.handle)

C31_Witness ==
    /\ lastOp = "Close"
    /\ HandleHeld(pre.handle)
    /\ Len(calls) = 1
    /\ calls[1].fn = "can_exit"
    /\ calls[1].r < 0
    /\ openHandles = 0
    /\ g_canHandle = CANAPI_HANDLE

====
